---- MODULE Spec2Model ----
(***************************************************************************)
(* Model of lib/mem_analysis.js: handleHeapData (the snapshot decoder and  *)
(* edgesMap indexer), peakLeakPoint (the bounded leak-candidate ranking)   *)
(* and fetchHeapUsage (their composition).                                 *)
(*                                                                         *)
(* JavaScript values are encoded as follows.  Numbers read from the flat   *)
(* arrays are naturals.  `undefined` (an array read out of range) and NaN  *)
(* (arithmetic on undefined) are the negative sentinels Undefined and NaN, *)
(* which no array element equals.  Strings are TLA+ strings; the           *)
(* template literals of the source are string concatenations.              *)
(***************************************************************************)
EXTENDS Integers, Sequences, FiniteSets, TLC

VARIABLES
    heapData,          \* the capture passed to fetchHeapUsage (read-only)
    pc,                \* control position: start, loop, decoded, reduce, reported
    i,                 \* handleHeapData: cursor of the node loop (line 48)
    offset,            \* handleHeapData: cursor into edges (line 42)
    heapMap,           \* handleHeapData: index -> node (line 44)
    heapArray,         \* handleHeapData: the nodes in order (line 45)
    edgesMap,          \* handleHeapData: id -> from_ids, to_ids (line 46)
    rootID,            \* handleHeapData: line 26
    rootIndex,         \* handleHeapData: line 25
    limitArg,          \* fetchHeapUsage: its limit parameter (line 171)
    limit,             \* peakLeakPoint: its limit parameter (lines 124-125)
    retainedSizeList,  \* peakLeakPoint: line 138
    distancesList,     \* peakLeakPoint: line 139
    index,             \* peakLeakPoint: index of the reduce callback (line 141)
    pre,               \* peakLeakPoint: the reduce accumulator (lines 162-167)
    report             \* fetchHeapUsage: the returned object (line 175)

vars == <<heapData, pc, i, offset, heapMap, heapArray, edgesMap, rootID,
          rootIndex, limitArg, limit, retainedSizeList, distancesList, index,
          pre, report>>

decodeVars == <<i, offset, heapMap, heapArray, edgesMap, rootID, rootIndex>>
rankVars == <<limitArg, limit, retainedSizeList, distancesList, index, pre,
              report>>

----------------------------------------------------------------------------
(* Bounds of the explored inputs.                                          *)

MaxNodes == 2
MaxEdgeLen == 6
MaxRankNodes == 4
MaxSize == 3
MaxLimit == 2

----------------------------------------------------------------------------
(* JavaScript value helpers.                                               *)

Undefined == -1
NaN == -2

Min(a, b) == IF a < b THEN a ELSE b

Digit == <<"0", "1", "2", "3", "4", "5", "6", "7", "8", "9">>

RECURSIVE DecStr(_)
DecStr(n) == IF n < 10 THEN Digit[n + 1]
             ELSE DecStr(n \div 10) \o Digit[(n % 10) + 1]

\* String(x) / `${x}` of a number, undefined or NaN.
ToStr(x) == IF x = Undefined THEN "undefined"
            ELSE IF x = NaN THEN "NaN"
            ELSE DecStr(x)

\* Number(x): undefined becomes NaN, a number is itself.
Number(x) == IF x = Undefined THEN NaN ELSE x

\* arr[k] with a 0-based index: undefined outside the array (also for NaN).
Get(arr, k) == IF k >= 0 /\ k < Len(arr) THEN arr[k + 1] ELSE Undefined

\* table[k] of a table of strings, as converted by a template literal.
StrAt(table, k) == IF k >= 0 /\ k < Len(table) THEN table[k + 1] ELSE "undefined"

\* arr.slice(a, b) for 0 <= a <= b: clamped to the array's length.
Slice(arr, a, b) == SubSeq(arr, a + 1, Min(b, Len(arr)))

\* x + y and x / y on numbers or undefined (y a number).
Plus(x, y) == IF x < 0 THEN NaN ELSE x + y
Div(x, y) == IF x < 0 THEN NaN ELSE x \div y

\* o || d.
OrDefault(o, d) == IF o = Undefined \/ o = NaN \/ o = 0 THEN d ELSE o

----------------------------------------------------------------------------
(* HeapGraphEdgeType, from v8/include/v8-profiler.h.                       *)

kContextVariable == 0
kElement == 1
kProperty == 2
kInternal == 3
kHidden == 4
kShortcut == 5
kWeak == 6

----------------------------------------------------------------------------
(* handleHeapData.                                                         *)

\* const rootIndex = heapData.snapshot.root_index || 0;
RootIndexOf(hd) == OrDefault(hd.root_index, 0)

\* const rootID = `@${heapData.nodes[rootIndex + 2]}`;
RootIDOf(hd) == "@" \o ToStr(Get(hd.nodes, RootIndexOf(hd) + 2))

\* The label rule of an edge: bracketed literal for kElement / kHidden.
NameOrIndex(hd, node_edge) ==
    IF Number(Get(node_edge, 0)) = Number(kElement)
       \/ Number(Get(node_edge, 0)) = Number(kHidden)
    THEN "[" \o ToStr(Get(node_edge, 1)) \o "]"
    ELSE StrAt(hd.strings, Get(node_edge, 1))

\* desc_node_edge of one raw edge record.
DescNodeEdge(hd, node_edge) ==
    [index |-> Div(Get(node_edge, 2), Len(hd.node_fields)),
     type |-> StrAt(hd.edge_types0, Get(node_edge, 0)),
     name_or_index |-> NameOrIndex(hd, node_edge),
     to_node |-> "@" \o ToStr(Get(hd.nodes, Plus(Get(node_edge, 2), 2)))]

\* AddFrom without the push onto an existing entry.
AddFromMut(em, to, info) ==
    IF to \in DOMAIN em
    THEN em
    ELSE (to :> [from_ids |-> <<info>>, to_ids |-> <<>>]) @@ em

\* edgesMap after recording `info` in the from_ids of key `to`.
AddFrom(em, to, info) ==
    IF to \in DOMAIN em
    THEN [em EXCEPT ![to].from_ids = Append(@, info)]
    ELSE (to :> [from_ids |-> <<info>>, to_ids |-> <<>>]) @@ em

\* edgesMap after recording `info` in the to_ids of key `from`.
AddTo(em, from, info) ==
    IF from \in DOMAIN em
    THEN [em EXCEPT ![from].to_ids = Append(@, info)]
    ELSE (from :> [from_ids |-> <<>>, to_ids |-> <<info>>]) @@ em

\* The inner loop over node_edges from position j: the node's children and
\* the edgesMap, in encounter order.
RECURSIVE DecodeEdges(_, _, _, _, _, _)
DecodeEdges(hd, id, node_edges, j, children, em) ==
    IF j >= Len(node_edges) THEN [children |-> children, edgesMap |-> em]
    ELSE LET node_edge == Slice(node_edges, j, j + Len(hd.edge_fields))
             e == DescNodeEdge(hd, node_edge)
             from_address_info ==
                 [id |-> id, type |-> e.type, name_or_index |-> e.name_or_index]
             to_address_info ==
                 [id |-> e.to_node, type |-> e.type,
                  name_or_index |-> e.name_or_index]
             em1 == AddFrom(em, e.to_node, from_address_info)
             em2 == AddTo(em1, id, to_address_info)
         IN DecodeEdges(hd, id, node_edges, j + Len(hd.edge_fields),
                        Append(children, e), em2)

\* NextOffset without the edge record width.
NextOffsetMut(off, edge_count, width) == off + edge_count

\* offset = offset + edge_count * edge_fields.length
NextOffset(off, edge_count, width) == off + edge_count * width

\* One iteration of the node loop on the loop state st.
DecodeStep(hd, st) ==
    LET nfl == Len(hd.node_fields)
        node == Slice(hd.nodes, st.i, st.i + nfl)
        edge_count == Get(node, 4)
        id == "@" \o ToStr(Get(node, 2))
        node_edges == Slice(hd.edges, st.offset,
                            NextOffset(st.offset, edge_count, Len(hd.edge_fields)))
        dec == DecodeEdges(hd, id, node_edges, 0, <<>>, st.edgesMap)
        desc_node ==
            [index |-> st.i \div nfl,
             type |-> StrAt(hd.node_types0, Get(node, 0)),
             name |-> StrAt(hd.strings, Get(node, 1)),
             id |-> id,
             self_size |-> Number(Get(node, 3)),
             retain_size |-> Number(Get(node, 3)),
             edge_count |-> edge_count,
             trace_node_id |-> Get(node, 5),
             children |-> dec.children,
             retainedSize |-> Undefined,
             distance |-> Undefined]
    IN [i |-> st.i + nfl,
        offset |-> NextOffset(st.offset, edge_count, Len(hd.edge_fields)),
        heapMap |-> (desc_node.index :> desc_node) @@ st.heapMap,
        heapArray |-> Append(st.heapArray, desc_node),
        edgesMap |-> dec.edgesMap]

EmptyMap == [x \in {} |-> x]

DecodeStart == [i |-> 0, offset |-> 0, heapMap |-> EmptyMap,
                heapArray |-> <<>>, edgesMap |-> EmptyMap]

RECURSIVE RunDecode(_, _)
RunDecode(hd, st) == IF st.i < Len(hd.nodes) THEN RunDecode(hd, DecodeStep(hd, st))
                     ELSE st

----------------------------------------------------------------------------
(* peakLeakPoint.                                                          *)

DefaultLimit == 5
DistanceSentinel == 100000000

\* limit = limit || 5
EffectiveLimit(l) == OrDefault(l, DefaultLimit)

\* if (index === rootIndex) return pre;
IsRoot(idx, root) == idx = root

\* Skipped with < 1 in place of <= 1.
SkippedMut(d) ==
    LET n == Number(d) IN n # NaN /\ (n < 1 \/ n >= DistanceSentinel)

\* Number(d) <= 1 || Number(d) >= 100000000 (false for NaN).
Skipped(d) ==
    LET n == Number(d) IN n # NaN /\ (n <= 1 \/ n >= DistanceSentinel)

\* Evicts with <= in place of <.
EvictsMut(last_size, next) == last_size <= next

\* pre.leakPoint[pre.leakPoint.length - 1].size < next
Evicts(last_size, next) == last_size < next

\* The comparator (o, n) => Number(o.size) < Number(n.size) ? 1 : -1.
Comparator(o, n) == IF Number(o.size) < Number(n.size) THEN 1 ELSE -1

Arrangements(n) ==
    {f \in [1..n -> 1..n] : \A a, b \in 1..n : a # b => f[a] # f[b]}

\* Array.prototype.sort with Comparator.  The comparator never returns 0, so
\* for entries of equal size it is inconsistent and their relative order is
\* left to the engine: every arrangement that no comparison contradicts
\* (descending by size, ties in any order) is a possible outcome.
\* SortOutcomesMut is the sort left out.
SortOutcomesMut(lp) == {lp}

SortOutcomes(lp) ==
    {[k \in 1..Len(lp) |-> lp[f[k]]] : f \in
        {g \in Arrangements(Len(lp)) :
            \A a, b \in 1..Len(lp) :
                (a < b /\ lp[g[a]].size # lp[g[b]].size)
                    => Comparator(lp[g[a]], lp[g[b]]) < 0}}

\* The candidate record pushed for node idx.
Candidate(hm, idx, next) == [index |-> idx, id |-> hm[idx].id, size |-> next]

\* The initial accumulator of the reduce.
InitialPre == [leakPoint |-> <<>>, length |-> 0,
               statistics |-> "statistics", aggregates |-> "aggregates"]

\* The full branch of the callback on an already sorted list.
AfterCompare(sorted, cand) ==
    IF Evicts(sorted[Len(sorted)].size, cand.size)
    THEN Append(SubSeq(sorted, 1, Len(sorted) - 1), cand)
    ELSE sorted

----------------------------------------------------------------------------
(* Explored inputs.                                                        *)

NodeFields == <<"type", "name", "id", "self_size", "edge_count", "trace_node_id">>
EdgeFields == <<"type", "name_or_index", "to_node">>
NodeTypes == <<"hidden", "array", "string", "object">>
Strings == <<"a", "b">>

\* V8's own edge-type table, and one whose entries 1 and 2 are exchanged.
V8EdgeTypes == <<"context", "element", "property", "internal", "hidden",
                 "shortcut", "weak">>
OtherEdgeTypes == <<"context", "property", "element", "internal", "hidden",
                    "shortcut", "weak">>

\* One raw node record: type, name, id, self_size, edge_count, trace_node_id.
NodeRecord(id, edge_count) == <<0, 0, id, 5, edge_count, 0>>

\* Declared edge counts go up to the number of whole edge records that fit.
EdgeCounts == 0..(MaxEdgeLen \div Len(EdgeFields))

\* Flat nodes arrays of n records; the first identity is fixed, a later one
\* may repeat it.
RECURSIVE FlatNodes(_)
FlatNodes(n) ==
    IF n = 0 THEN {<<>>}
    ELSE {ns \o NodeRecord(id, ec) :
            ns \in FlatNodes(n - 1),
            id \in (IF n = 1 THEN {7} ELSE {7, 8}),
            ec \in EdgeCounts}

\* The values explored at position p of the flat edges array.
EdgeSlot(p) ==
    CASE p % Len(EdgeFields) = 0 -> {kElement, kProperty, kHidden}
      [] p % Len(EdgeFields) = 1 -> {1}
      [] OTHER -> {0, Len(NodeFields)}

RECURSIVE FlatEdges(_)
FlatEdges(len) ==
    IF len = 0 THEN {<<>>}
    ELSE {Append(es, v) : es \in FlatEdges(len - 1), v \in EdgeSlot(len - 1)}

Capture(root, nodes, edges, edge_types0) ==
    [root_index |-> root, node_fields |-> NodeFields, node_types0 |-> NodeTypes,
     edge_fields |-> EdgeFields, edge_types0 |-> edge_types0,
     nodes |-> nodes, edges |-> edges, strings |-> Strings]

DecodeCaptures ==
    {Capture(root, nodes, edges, et) :
        root \in {Undefined, 1},
        nodes \in UNION {FlatNodes(n) : n \in 1..MaxNodes},
        edges \in UNION {FlatEdges(len) : len \in 0..MaxEdgeLen},
        et \in {V8EdgeTypes, OtherEdgeTypes}}

\* Captures of n nodes without edges, with identities 10, 11, ...
RECURSIVE PlainNodes(_)
PlainNodes(n) == IF n = 0 THEN <<>>
                 ELSE PlainNodes(n - 1) \o NodeRecord(9 + n, 0)

RankCaptures ==
    {Capture(root, PlainNodes(n), <<>>, V8EdgeTypes) :
        root \in {Undefined, 1}, n \in 1..MaxRankNodes}

\* Engine outputs for one node: <<retained size, distance>>.
EnginePairs ==
    {<<s, 2>> : s \in 1..MaxSize} \cup
    {<<MaxSize, d>> : d \in {1, DistanceSentinel}}

LimitArgs == {Undefined} \cup 0..MaxLimit

\* A long capture: more eligible nodes than the default limit.
LongLen == DefaultLimit + 2
LongCapture == Capture(Undefined, PlainNodes(LongLen), <<>>, V8EdgeTypes)
LongPairs == {<<s, 2>> : s \in 1..2}

EngineRuns(hd, l) ==
    IF hd = LongCapture
    THEN IF l = Undefined
         THEN [1..LongLen -> LongPairs]
         ELSE {}
    ELSE [1..(Len(hd.nodes) \div Len(hd.node_fields)) -> EnginePairs]

----------------------------------------------------------------------------
(* State machine.                                                          *)

NoReport == [heapMap |-> EmptyMap, leakPoint |-> <<>>, statistics |-> "",
             rootIndex |-> Undefined, aggregates |-> ""]

IdleDecode ==
    /\ i = 0 /\ offset = 0 /\ heapMap = EmptyMap /\ heapArray = <<>>
    /\ edgesMap = EmptyMap /\ rootID = "" /\ rootIndex = Undefined

IdleRank ==
    /\ limit = Undefined
    /\ retainedSizeList = <<>> /\ distancesList = <<>> /\ index = 0
    /\ pre = InitialPre /\ report = NoReport

\* handleHeapData is called on a capture.
InitDecode ==
    /\ heapData \in DecodeCaptures
    /\ pc = "start"
    /\ limitArg = Undefined
    /\ IdleDecode /\ IdleRank

\* Lines 25-46: the root and the empty accumulators.
HandleHeapDataEnter ==
    /\ pc = "start"
    /\ rootIndex' = RootIndexOf(heapData)
    /\ rootID' = RootIDOf(heapData)
    /\ offset' = DecodeStart.offset
    /\ i' = DecodeStart.i
    /\ heapMap' = DecodeStart.heapMap
    /\ heapArray' = DecodeStart.heapArray
    /\ edgesMap' = DecodeStart.edgesMap
    /\ pc' = "loop"
    /\ UNCHANGED <<heapData, rankVars>>

\* Lines 48-116: one iteration of the node loop.
DecodeNode ==
    /\ pc = "loop"
    /\ i < Len(heapData.nodes)
    /\ LET st == DecodeStep(heapData,
                            [i |-> i, offset |-> offset, heapMap |-> heapMap,
                             heapArray |-> heapArray, edgesMap |-> edgesMap])
       IN /\ i' = st.i
          /\ offset' = st.offset
          /\ heapMap' = st.heapMap
          /\ heapArray' = st.heapArray
          /\ edgesMap' = st.edgesMap
    /\ UNCHANGED <<heapData, pc, rootID, rootIndex, rankVars>>

\* Line 118: the loop is over and the graph is returned.
HandleHeapDataReturn ==
    /\ pc = "loop"
    /\ i >= Len(heapData.nodes)
    /\ pc' = "decoded"
    /\ UNCHANGED <<heapData, decodeVars, rankVars>>

NextDecode == HandleHeapDataEnter \/ DecodeNode \/ HandleHeapDataReturn

SpecDecode == InitDecode /\ [][NextDecode]_vars

\* fetchHeapUsage(heapData, limitArg) has decoded the capture and is about to
\* call peakLeakPoint with its own limit argument.
InitRank ==
    /\ heapData \in RankCaptures \cup {LongCapture}
    /\ limitArg \in LimitArgs
    /\ EngineRuns(heapData, limitArg) # {}
    /\ pc = "decoded"
    /\ LET st == RunDecode(heapData, DecodeStart)
       IN /\ i = st.i
          /\ offset = st.offset
          /\ heapMap = st.heapMap
          /\ heapArray = st.heapArray
          /\ edgesMap = st.edgesMap
    /\ rootIndex = RootIndexOf(heapData)
    /\ rootID = RootIDOf(heapData)
    /\ IdleRank

\* Lines 125-139: the default limit and the engine's arrays.
PeakLeakPointEnter ==
    /\ pc = "decoded"
    /\ limit' = EffectiveLimit(limitArg)
    /\ \E run \in EngineRuns(heapData, limitArg) :
          /\ retainedSizeList' = [k \in DOMAIN run |-> run[k][1]]
          /\ distancesList' = [k \in DOMAIN run |-> run[k][2]]
    /\ index' = 0
    /\ pre' = InitialPre
    /\ pc' = "reduce"
    /\ UNCHANGED <<heapData, decodeVars, limitArg, report>>

\* Lines 141-161: the reduce callback on element `index`.
ReduceStep ==
    /\ pc = "reduce"
    /\ index < Len(retainedSizeList)
    /\ LET next == retainedSizeList[index + 1]
           dist == Get(distancesList, index)
           cand == Candidate(heapMap, index, next)
       IN /\ heapMap' = [heapMap EXCEPT ![index].retainedSize = next,
                                        ![index].distance = dist]
          /\ heapArray' = [heapArray EXCEPT ![index + 1].retainedSize = next,
                                            ![index + 1].distance = dist]
          /\ IF IsRoot(index, rootIndex) \/ Skipped(dist)
             THEN pre' = pre
             ELSE IF pre.length < limit
             THEN pre' = [pre EXCEPT !.leakPoint = Append(@, cand),
                                     !.length = @ + 1]
             ELSE \E sorted \in SortOutcomes(pre.leakPoint) :
                     pre' = [pre EXCEPT !.leakPoint = AfterCompare(sorted, cand)]
    /\ index' = index + 1
    /\ UNCHANGED <<heapData, pc, i, offset, edgesMap, rootID, rootIndex,
                   limitArg, limit, retainedSizeList, distancesList, report>>

\* Lines 161-175: reduce returns pre and fetchHeapUsage assembles the report.
FetchHeapUsageReturn ==
    /\ pc = "reduce"
    /\ index >= Len(retainedSizeList)
    /\ report' = [heapMap |-> heapMap, leakPoint |-> pre.leakPoint,
                  statistics |-> pre.statistics, rootIndex |-> rootIndex,
                  aggregates |-> pre.aggregates]
    /\ pc' = "reported"
    /\ UNCHANGED <<heapData, decodeVars, limitArg, limit, retainedSizeList,
                   distancesList, index, pre>>

NextRank == PeakLeakPointEnter \/ ReduceStep \/ FetchHeapUsageReturn

SpecRank == InitRank /\ [][NextRank]_vars

----------------------------------------------------------------------------
(* Properties of peakLeakPoint, checked under SpecRank.                    *)

InRank == pc \in {"reduce", "reported"}

NodeCount == Len(retainedSizeList)

\* The node indices that are neither the root nor skipped by distance.
EligibleNodes ==
    {k \in 0..(NodeCount - 1) :
        /\ k # rootIndex
        /\ distancesList[k + 1] > 1
        /\ distancesList[k + 1] < DistanceSentinel}

IndicesOf(lp) == {lp[k].index : k \in 1..Len(lp)}
SizesOf(lp) == {lp[k].size : k \in 1..Len(lp)}
MinSize(lp) == CHOOSE m \in SizesOf(lp) : \A z \in SizesOf(lp) : m <= z

\* C1: after every step of the reduce, and in the report, no candidate is
\* the node at rootIndex and every candidate's node has a distance strictly
\* between 1 and 100000000.
C1_CandidatesAreEligible ==
    InRank =>
        /\ \A k \in 1..Len(pre.leakPoint) :
              /\ pre.leakPoint[k].index # rootIndex
              /\ distancesList[pre.leakPoint[k].index + 1] > 1
              /\ distancesList[pre.leakPoint[k].index + 1] < DistanceSentinel
        /\ pc = "reported" => IndicesOf(report.leakPoint) \subseteq EligibleNodes

\* C1 witness: a report with a candidate, made from a run in which the root
\* is not node 0 and is itself deep enough, one node is too shallow and one
\* is unreachable.
C1_Witness ==
    /\ pc = "reported"
    /\ Len(report.leakPoint) >= 1
    /\ rootIndex = 1
    /\ rootIndex < NodeCount
    /\ distancesList[rootIndex + 1] = 2
    /\ \E a, b \in 0..(NodeCount - 1) :
          /\ a # rootIndex /\ b # rootIndex
          /\ distancesList[a + 1] = 1
          /\ distancesList[b + 1] = DistanceSentinel

\* C2: the working list never holds more entries than the limit the caller
\* passed (5 when the caller passed none).
C2_AtMostCallerLimit ==
    InRank =>
        Len(pre.leakPoint) <= (IF limitArg = Undefined THEN DefaultLimit
                               ELSE limitArg)

\* C3: the leakPoint list of the report is in descending order of size.
C3_ReportSortedDescending ==
    pc = "reported" =>
        \A k \in 1..(Len(report.leakPoint) - 1) :
            report.leakPoint[k].size >= report.leakPoint[k + 1].size

\* C4: in a step of the reduce on a full list, an entry leaves the list only
\* if the incoming size is strictly greater than the list's minimum (and then
\* only entries smaller than the incoming node leave), and an incoming size
\* equal to the minimum leaves the set of listed indices unchanged.
C4_TiesDoNotEvict ==
    [][(pc = "reduce" /\ index' = index + 1
        /\ Len(pre.leakPoint) >= limit /\ index \in EligibleNodes)
       => LET next == retainedSizeList[index + 1]
              gone == {k \in 1..Len(pre.leakPoint) :
                          pre.leakPoint[k].index \notin IndicesOf(pre'.leakPoint)}
          IN /\ gone # {} => next > MinSize(pre.leakPoint)
             /\ \A k \in gone : pre.leakPoint[k].size < next
             /\ next = MinSize(pre.leakPoint)
                   => IndicesOf(pre'.leakPoint) = IndicesOf(pre.leakPoint)]_vars

\* C4 witness: the node just processed is eligible, arrived when the list
\* was full, ties with the list's minimum and is not listed, while an
\* earlier node of that size is.
C4_Witness ==
    /\ pc = "reduce"
    /\ index >= 1
    /\ (index - 1) \in EligibleNodes
    /\ Len(pre.leakPoint) = limit
    /\ (index - 1) \notin IndicesOf(pre.leakPoint)
    /\ retainedSizeList[index] = MinSize(pre.leakPoint)
    /\ \E k \in 1..Len(pre.leakPoint) :
          /\ pre.leakPoint[k].size = retainedSizeList[index]
          /\ pre.leakPoint[k].index < index - 1

\* C10: for a caller's limit >= 1 the report lists exactly
\* min(limit, number of eligible nodes) candidates with distinct indices,
\* each carrying its node's id and retained size, and no eligible node left
\* out is larger than the smallest listed one.
C10_TopK ==
    (pc = "reported" /\ limitArg >= 1) =>
        LET lp == report.leakPoint
        IN /\ Len(lp) = Min(limitArg, Cardinality(EligibleNodes))
           /\ Cardinality(IndicesOf(lp)) = Len(lp)
           /\ \A k \in 1..Len(lp) :
                 /\ lp[k].index \in 0..(NodeCount - 1)
                 /\ lp[k].id = heapMap[lp[k].index].id
                 /\ lp[k].size = retainedSizeList[lp[k].index + 1]
           /\ \A e \in EligibleNodes \ IndicesOf(lp) :
                 retainedSizeList[e + 1] <= MinSize(lp)

\* C10 witness: a report for limit >= 2 with more eligible nodes than the
\* limit, in which an earlier eligible node is left out and a later one is
\* listed (the later one came in by eviction).
C10_Witness ==
    /\ pc = "reported"
    /\ limitArg >= 2
    /\ Cardinality(EligibleNodes) > limitArg
    /\ \E e \in EligibleNodes \ IndicesOf(report.leakPoint) :
          \E k \in 1..Len(report.leakPoint) :
              /\ report.leakPoint[k].index > e
              /\ report.leakPoint[k].size > retainedSizeList[e + 1]

----------------------------------------------------------------------------
(* Properties of handleHeapData, checked under SpecDecode.                 *)

InDecode == pc \in {"loop", "decoded"}

NodeWidth == Len(heapData.node_fields)
EdgeWidth == Len(heapData.edge_fields)
RawNodeCount == Len(heapData.nodes) \div NodeWidth

\* The edge_count field of the m-th raw node record (0-based).
RawEdgeCount(m) == heapData.nodes[m * NodeWidth + 5]

\* Sum over nodes 0..k-1 of edge_count * edge_fields.length.
RECURSIVE SpanBefore(_)
SpanBefore(k) == IF k = 0 THEN 0
                 ELSE SpanBefore(k - 1) + RawEdgeCount(k - 1) * EdgeWidth

\* The part of [SpanBefore(m), SpanBefore(m + 1)) that lies in the edges array.
SpanLength(m) ==
    IF SpanBefore(m) >= Len(heapData.edges) THEN 0
    ELSE Min(SpanBefore(m + 1), Len(heapData.edges)) - SpanBefore(m)

ValidCapture == SpanBefore(RawNodeCount) = Len(heapData.edges)

Truncated == \E m \in 0..(RawNodeCount - 1) : SpanBefore(m + 1) > Len(heapData.edges)

DistinctIds ==
    \A a, b \in 0..(RawNodeCount - 1) :
        a # b => heapData.nodes[a * NodeWidth + 3] # heapData.nodes[b * NodeWidth + 3]

\* Every decoded edge as <<position of its node in heapArray, position in children>>.
DecodedEdges ==
    UNION {{<<m, j>> : j \in 1..Len(heapArray[m].children)} : m \in 1..Len(heapArray)}

FromEntries ==
    UNION {{<<k, q>> : q \in 1..Len(edgesMap[k].from_ids)} : k \in DOMAIN edgesMap}

ToEntries ==
    UNION {{<<k, q>> : q \in 1..Len(edgesMap[k].to_ids)} : k \in DOMAIN edgesMap}

\* C5: after decoding a capture with pairwise distinct node identities, every
\* decoded edge A -> B has an entry with id A, its type and its label in
\* edgesMap[B].from_ids and one with id B, its type and its label in
\* edgesMap[A].to_ids, and there are as many from_ids entries, and as many
\* to_ids entries, as decoded edges.
C5_EdgesMapBidirectional ==
    (pc = "decoded" /\ DistinctIds) =>
        /\ \A e \in DecodedEdges :
              LET a == heapArray[e[1]]
                  c == a.children[e[2]]
              IN /\ c.to_node \in DOMAIN edgesMap
                 /\ a.id \in DOMAIN edgesMap
                 /\ \E q \in 1..Len(edgesMap[c.to_node].from_ids) :
                       edgesMap[c.to_node].from_ids[q] =
                           [id |-> a.id, type |-> c.type,
                            name_or_index |-> c.name_or_index]
                 /\ \E q \in 1..Len(edgesMap[a.id].to_ids) :
                       edgesMap[a.id].to_ids[q] =
                           [id |-> c.to_node, type |-> c.type,
                            name_or_index |-> c.name_or_index]
        /\ Cardinality(FromEntries) = Cardinality(DecodedEdges)
        /\ Cardinality(ToEntries) = Cardinality(DecodedEdges)

\* C5 witness: a decoded two-node capture with distinct identities in which
\* the first node has a self-edge and the second node has an edge to the
\* first, so that one from_ids list is pushed to after it was created.
C5_Witness ==
    /\ pc = "decoded"
    /\ DistinctIds
    /\ Len(heapArray) = 2
    /\ \E j \in 1..Len(heapArray[1].children) :
          heapArray[1].children[j].to_node = heapArray[1].id
    /\ \E j \in 1..Len(heapArray[2].children) :
          heapArray[2].children[j].to_node = heapArray[1].id

\* C6: the cursor is 0 at the start and, before node k is processed, the sum
\* of the earlier nodes' edge_count * edge_fields.length; each decoded node's
\* children are the records of its own sub-range of the edges array, in
\* order; for a valid capture every node has edge_count children and the
\* final cursor is edges.length.
C6_OffsetCursor ==
    InDecode =>
        /\ offset = SpanBefore(i \div NodeWidth)
        /\ \A m \in 1..Len(heapArray) :
              LET ch == heapArray[m].children
              IN /\ Len(ch) * EdgeWidth >= SpanLength(m - 1)
                 /\ (Len(ch) - 1) * EdgeWidth < SpanLength(m - 1) \/ Len(ch) = 0
                 /\ \A j \in 1..Len(ch) :
                       LET base == SpanBefore(m - 1) + (j - 1) * EdgeWidth
                       IN /\ ch[j].type =
                               StrAt(heapData.edge_types0, Get(heapData.edges, base))
                          /\ ch[j].index =
                               Div(Get(heapData.edges, base + 2), NodeWidth)
        /\ ValidCapture =>
              /\ \A m \in 1..Len(heapArray) :
                    Len(heapArray[m].children) = heapArray[m].edge_count
              /\ pc = "decoded" => offset = Len(heapData.edges)

\* C6 witness: a valid two-node capture, decoded, in which both nodes have
\* edges, so the second node's range starts at a non-zero cursor.
C6_Witness ==
    /\ pc = "decoded"
    /\ ValidCapture
    /\ Len(heapArray) = 2
    /\ heapArray[1].edge_count >= 1
    /\ heapArray[2].edge_count >= 1
    /\ heapArray[2].children[1].index # heapArray[1].children[1].index

\* C7: an edge whose type, resolved through the capture's edge-type table, is
\* "element" or "hidden" is labelled "[n]" for its raw name field n, and an
\* edge of any other resolved type is labelled strings[n].
C7_LabelFollowsResolvedType ==
    InDecode =>
        \A m \in 1..Len(heapArray) :
            \A j \in 1..Len(heapArray[m].children) :
                LET c == heapArray[m].children[j]
                    base == SpanBefore(m - 1) + (j - 1) * EdgeWidth
                    n == Get(heapData.edges, base + 1)
                IN IF c.type \in {"element", "hidden"}
                   THEN c.name_or_index = "[" \o ToStr(n) \o "]"
                   ELSE c.name_or_index = StrAt(heapData.strings, n)

\* C8: for a declared root_index r within the nodes (0 when absent), decode
\* returns rootIndex = r and rootID is the id of the node at index r.
C8_RootIdentity ==
    LET r == IF heapData.root_index = Undefined THEN 0 ELSE heapData.root_index
    IN (pc = "decoded" /\ r < RawNodeCount) =>
           /\ rootIndex = r
           /\ rootID = heapArray[rootIndex + 1].id
           /\ rootID = heapMap[rootIndex].id

\* C9: a capture in which some node's edge span extends past the end of the
\* edges array never makes handleHeapData return a graph.
C9_TruncatedNeverReturns == Truncated => pc # "decoded"

====
